---- MODULE Spec2Model ----
(***************************************************************************)
(* Model of moto/core/authentication.py: resolution of the calling         *)
(* principal from an access key id, recomputation of the request           *)
(* signature over the signed headers, and evaluation of the principal's    *)
(* IAM policies for the requested action.                                  *)
(*                                                                         *)
(* A Python string is a sequence of symbols.  A symbol is a one-character  *)
(* TLA+ string; the few multi-character symbols used below ("Credential=", *)
(* "SignedHeaders=", "Signature=", a date, a region, a service name, a     *)
(* signature value) stand for runs of characters that none of the          *)
(* separators, prefixes or case conversions of the code can split.         *)
(***************************************************************************)
EXTENDS Integers, Sequences, FiniteSets, TLC

VARIABLES
    pc,         \* position of the caller: which call comes next
    arg,        \* arguments of the function under evaluation
    ret,        \* its return value
    backend,    \* iam_backend / sts_backend: the directory, read-only
    request,    \* method, path, data, headers and request class of the inbound request
    self,       \* fields of the IAMRequestBase object under construction
    outcome,    \* exception raised to the caller, or "Success"
    calls       \* the stages that ran, in order

vars == <<pc, arg, ret, backend, request, self, outcome, calls>>

None == [none |-> TRUE]

-----------------------------------------------------------------------------
(* Python str operations *)

SeqsUpTo(S, n) == UNION {[1..k -> S] : k \in 0..n}

Suffix(s, i) == SubSeq(s, i, Len(s))

\* str.startswith
StartsWith(s, prefix) ==
    /\ Len(prefix) <= Len(s)
    /\ SubSeq(s, 1, Len(prefix)) = prefix

\* str.find: index of the first occurrence of sep in s, 0 when there is none
Find(s, sep) ==
    LET hits == {i \in 1..(Len(s) - Len(sep) + 1) : SubSeq(s, i, i + Len(sep) - 1) = sep}
    IN  IF hits = {} THEN 0 ELSE CHOOSE i \in hits : \A j \in hits : i <= j

\* str.partition: <<head, sep, tail>>, or <<s, "", "">> when sep does not occur
Partition(s, sep) ==
    LET i == Find(s, sep)
    IN  IF i = 0 THEN <<s, <<>>, <<>>>>
        ELSE <<SubSeq(s, 1, i - 1), sep, Suffix(s, i + Len(sep))>>

\* str.split on a one-symbol separator: always at least one field
RECURSIVE Split(_, _)
Split(s, sep) ==
    LET i == Find(s, <<sep>>)
    IN  IF i = 0 THEN <<s>>
        ELSE <<SubSeq(s, 1, i - 1)>> \o Split(Suffix(s, i + 1), sep)

\* str.replace of a one-symbol old string
RECURSIVE Replace(_, _, _)
Replace(s, old, new) ==
    IF s = <<>> THEN <<>>
    ELSE (IF Head(s) = old THEN new ELSE <<Head(s)>>) \o Replace(Tail(s), old, new)

LowerChar(c) ==
    CASE c = "A" -> "a" [] c = "B" -> "b" [] c = "C" -> "c" [] c = "D" -> "d"
      [] c = "E" -> "e" [] c = "F" -> "f" [] c = "G" -> "g" [] c = "H" -> "h"
      [] c = "I" -> "i" [] c = "J" -> "j" [] c = "K" -> "k" [] c = "L" -> "l"
      [] c = "M" -> "m" [] c = "N" -> "n" [] c = "O" -> "o" [] c = "P" -> "p"
      [] c = "Q" -> "q" [] c = "R" -> "r" [] c = "S" -> "s" [] c = "T" -> "t"
      [] c = "U" -> "u" [] c = "V" -> "v" [] c = "W" -> "w" [] c = "X" -> "x"
      [] c = "Y" -> "y" [] c = "Z" -> "z" [] OTHER -> c

\* str.lower
RECURSIVE Lower(_)
Lower(s) == IF s = <<>> THEN <<>> ELSE <<LowerChar(Head(s))>> \o Lower(Tail(s))

-----------------------------------------------------------------------------
(* re.match("^" + pattern + "$", string) for the regular expressions that   *)
(* _match builds from patterns over PatternAlphabet: a literal symbol, "."  *)
(* (any symbol but a newline), and either of them followed by "*".  "$"     *)
(* matches at the end of the string and before a final newline.            *)

ReAtom(a, c) == IF a = "." THEN c # "\n" ELSE a = c

RECURSIVE ReMatch(_, _)
ReMatch(re, s) ==
    IF re = <<>> THEN s = <<>> \/ s = <<"\n">>
    ELSE IF Len(re) >= 2 /\ re[2] = "*"
         THEN \E k \in 0..Len(s) :
                  /\ \A i \in 1..k : ReAtom(re[1], s[i])
                  /\ ReMatch(Suffix(re, 3), Suffix(s, k + 1))
         ELSE /\ s # <<>>
              /\ ReAtom(re[1], s[1])
              /\ ReMatch(Tail(re), Tail(s))

\* The value is the truth value of the match object that _match returns.
_match(pattern, string) == ReMatch(Replace(pattern, "*", <<".", "*">>), string)

-----------------------------------------------------------------------------
(* Inputs of the matching specification *)

MaxPatternLen == 3
MaxStringLen == 3

PatternAlphabet == {"a", "b", ":", "*", "."}
StringAlphabet == {"a", "b", ":"}

S3GetStar == <<"s", "3", ":", "G", "e", "t", "*">>
S3Get == <<"s", "3", ":", "G", "e", "t">>
S3GetObject == <<"s", "3", ":", "G", "e", "t", "O", "b", "j", "e", "c", "t">>
S3PutObject == <<"s", "3", ":", "P", "u", "t", "O", "b", "j", "e", "c", "t">>
Star == <<"*">>

MatchPatterns == SeqsUpTo(PatternAlphabet, MaxPatternLen) \cup {S3GetStar, Star}
MatchStrings == SeqsUpTo(StringAlphabet, MaxStringLen) \cup {S3Get, S3GetObject, S3PutObject}

Idle == /\ backend = None /\ request = None /\ self = None
        /\ outcome = None /\ calls = <<>>

InitMatch ==
    /\ pc = "call"
    /\ arg \in [pattern : MatchPatterns, string : MatchStrings]
    /\ ret = None
    /\ Idle

CallMatch ==
    /\ pc = "call"
    /\ ret' = _match(arg.pattern, arg.string)
    /\ pc' = "done"
    /\ UNCHANGED <<arg, backend, request, self, outcome, calls>>

SpecMatch == InitMatch /\ [][CallMatch]_vars

\* What the pattern language is said to be: "*" stands for any substring,
\* every other symbol for itself.
RECURSIVE GlobMatch(_, _)
GlobMatch(p, s) ==
    IF p = <<>> THEN s = <<>>
    ELSE IF Head(p) = "*"
         THEN \E k \in 0..Len(s) : GlobMatch(Tail(p), Suffix(s, k + 1))
         ELSE s # <<>> /\ Head(p) = Head(s) /\ GlobMatch(Tail(p), Tail(s))

\* C6: a pattern matches a string exactly when the string is the pattern
\* with each "*" replaced by some substring, no other symbol being special.
C6_MatchIsGlob ==
    pc = "done" => (ret <=> GlobMatch(arg.pattern, arg.string))

-----------------------------------------------------------------------------
(* IAMPolicyStatement.  A statement is the dict parsed from the policy      *)
(* JSON: a function from its keys to their values.  The value of Action or  *)
(* NotAction is a Python str, [str |-> s], or a Python list of str,         *)
(* [list |-> <<s1, ..., sn>>].                                             *)

PERMITTED == "PERMITTED"
DENIED == "DENIED"
NEUTRAL == "NEUTRAL"

IsList(v) == "list" \in DOMAIN v

RECURSIVE ListMatches(_, _)
ListMatches(values, value) ==
    IF values = <<>> THEN FALSE
    ELSE IF _match(Head(values), value) THEN TRUE
    ELSE ListMatches(Tail(values), value)

_check_element_matches(statement, statement_element, value) ==
    IF IsList(statement[statement_element])
    THEN ListMatches(statement[statement_element].list, value)
    ELSE _match(statement[statement_element].str, value)

\* NotAction read as if it were Action
is_action_concerned_unnegated(statement, action) ==
    IF "NotAction" \in DOMAIN statement
    THEN _check_element_matches(statement, "NotAction", action)
    ELSE _check_element_matches(statement, "Action", action)

is_action_concerned(statement, action) ==
    IF "NotAction" \in DOMAIN statement
    THEN ~_check_element_matches(statement, "NotAction", action)
    ELSE _check_element_matches(statement, "Action", action)

IAMPolicyStatement_is_action_permitted(statement, action) ==
    IF is_action_concerned(statement, action)
    THEN (IF statement["Effect"] = "Allow" THEN PERMITTED ELSE DENIED)
    ELSE NEUTRAL

-----------------------------------------------------------------------------
(* IAMPolicy.  A policy is a managed Policy object, [versions |-> <<...>>]  *)
(* with one version flagged default; or the policy document itself, a str   *)
(* of JSON, [json |-> ...]; or a dict [policy_document |-> [json |-> ...]]. *)
(* The JSON text is kept as the value it denotes, so json.loads unwraps it. *)
(* collect_policies can also hand over a Python list, [list |-> ...], and   *)
(* None: subscripting either with "policy_document" raises TypeError, and   *)
(* the result of the evaluation is then "TypeError".                        *)

json_loads(text) == text.json

IsPolicy(policy) == "versions" \in DOMAIN policy
IsString(policy) == "json" \in DOMAIN policy
IsDict(policy) == "policy_document" \in DOMAIN policy

\* next(v for v in versions if v.is_default): the first default version
default_version(policy) ==
    LET versions == policy.versions
        i == CHOOSE i \in 1..Len(versions) :
                 /\ versions[i].is_default
                 /\ \A j \in 1..(i - 1) : ~versions[j].is_default
    IN  versions[i]

policy_document(policy) ==
    IF IsPolicy(policy) THEN default_version(policy).document
    ELSE IF IsString(policy) THEN policy
    ELSE policy["policy_document"]

\* the statement loop returning at the first statement that has an opinion
RECURSIVE StatementLoopFirstWins(_, _, _)
StatementLoopFirstWins(statements, action, permitted) ==
    IF statements = <<>> THEN NEUTRAL
    ELSE LET permission_result ==
                 IAMPolicyStatement_is_action_permitted(Head(statements), action)
         IN  IF permission_result # NEUTRAL THEN permission_result
             ELSE StatementLoopFirstWins(Tail(statements), action, permitted)

\* the loop over policy_json["Statement"], entered with permitted = False
RECURSIVE StatementLoop(_, _, _)
StatementLoop(statements, action, permitted) ==
    IF statements = <<>>
    THEN (IF permitted THEN PERMITTED ELSE NEUTRAL)
    ELSE LET permission_result ==
                 IAMPolicyStatement_is_action_permitted(Head(statements), action)
         IN  IF permission_result = DENIED THEN permission_result
             ELSE StatementLoop(Tail(statements), action,
                                permitted \/ permission_result = PERMITTED)

IAMPolicy_is_action_permitted(policy, action) ==
    IF ~IsPolicy(policy) /\ ~IsString(policy) /\ ~IsDict(policy)
    THEN "TypeError"
    ELSE StatementLoop(json_loads(policy_document(policy))["Statement"], action, FALSE)

\* the loop over the collected policies, entered with permitted = False;
\* "raise" is the call of _raise_access_denied, "return" the normal return,
\* "TypeError" the exception of a policy that cannot be evaluated
RECURSIVE PolicyLoop(_, _, _)
PolicyLoop(policies, action, permitted) ==
    IF policies = <<>>
    THEN (IF permitted THEN "return" ELSE "raise")
    ELSE LET permission_result == IAMPolicy_is_action_permitted(Head(policies), action)
         IN  IF permission_result = "TypeError" THEN "TypeError"
             ELSE IF permission_result = DENIED THEN "raise"
             ELSE PolicyLoop(Tail(policies), action,
                             permitted \/ permission_result = PERMITTED)

_check_action_permitted_for_iam_user(policies, action) ==
    PolicyLoop(policies, action, FALSE)

-----------------------------------------------------------------------------
(* Inputs of the policy specifications *)

MaxListLen == 2
MaxStatements == 3
MaxPolicies == 2

ActGet == <<"s", ":", "G">>
ActPut == <<"s", ":", "P">>
ActEc2 == <<"e", ":", "G">>
PolicyActions == {ActGet, ActPut, ActEc2}
PolicyPatterns == {Star, <<"s", ":", "*">>, ActGet, <<"*", "G">>}

ElementValues(patterns, n) ==
    {[str |-> p] : p \in patterns} \cup {[list |-> l] : l \in SeqsUpTo(patterns, n)}

\* statements with one of Action and NotAction, with and without the
\* Resource and Condition elements
Statements(values) ==
    LET effects == {"Allow", "Deny"}
    IN  {[Effect |-> e, Action |-> v] : e \in effects, v \in values}
        \cup {[Effect |-> e, NotAction |-> v] : e \in effects, v \in values}
        \cup {[Effect |-> e, Action |-> v, Resource |-> "arn:aws:s3:::other", Condition |-> "never"] :
                  e \in effects, v \in values}
        \cup {[Effect |-> e, NotAction |-> v, Resource |-> "arn:aws:s3:::other", Condition |-> "never"] :
                  e \in effects, v \in values}

InitStatement ==
    /\ pc = "call"
    /\ arg \in [statement : Statements(ElementValues(PolicyPatterns, MaxListLen)),
                action : PolicyActions]
    /\ ret = None
    /\ Idle

CallStatement ==
    /\ pc = "call"
    /\ ret' = IAMPolicyStatement_is_action_permitted(arg.statement, arg.action)
    /\ pc' = "done"
    /\ UNCHANGED <<arg, backend, request, self, outcome, calls>>

SpecStatement == InitStatement /\ [][CallStatement]_vars

DocPatterns == {<<"s", ":", "*">>, ActGet}
DocStatements ==
    LET effects == {"Allow", "Deny"}
        values == {[str |-> p] : p \in DocPatterns} \cup {[list |-> <<ActPut, ActEc2>>]}
    IN  {[Effect |-> e, Action |-> v] : e \in effects, v \in values}
        \cup {[Effect |-> e, NotAction |-> v] : e \in effects, v \in values}

Document(statements) == [json |-> [Version |-> "2012-10-17", Statement |-> statements]]

InitDocument ==
    /\ pc = "call"
    /\ arg \in [policy : {Document(s) : s \in SeqsUpTo(DocStatements, MaxStatements)},
                action : PolicyActions]
    /\ ret = None
    /\ Idle

CallDocument ==
    /\ pc = "call"
    /\ ret' = IAMPolicy_is_action_permitted(arg.policy, arg.action)
    /\ pc' = "done"
    /\ UNCHANGED <<arg, backend, request, self, outcome, calls>>

SpecDocument == InitDocument /\ [][CallDocument]_vars

Allow(p) == [Effect |-> "Allow", Action |-> [str |-> p]]
Deny(p) == [Effect |-> "Deny", Action |-> [str |-> p]]
AllowNot(p) == [Effect |-> "Allow", NotAction |-> [str |-> p]]

AggDocuments ==
    {Document(s) : s \in {<<>>, <<Allow(ActGet)>>, <<Deny(ActGet)>>, <<Allow(Star)>>,
                          <<AllowNot(ActGet)>>, <<Allow(Star), Deny(ActPut)>>}}

\* the three shapes in which collect_policies hands a document over
AsManaged(d) ==
    [versions |-> <<[document |-> Document(<<Allow(Star)>>), is_default |-> FALSE],
                    [document |-> d, is_default |-> TRUE],
                    [document |-> Document(<<Deny(Star)>>), is_default |-> FALSE]>>]
AsInline(d) == [policy_name |-> "inline", policy_document |-> d]

AggPolicies ==
    AggDocuments \cup {AsManaged(d) : d \in AggDocuments} \cup {AsInline(d) : d \in AggDocuments}

InitAuthorize ==
    /\ pc = "call"
    /\ arg \in [policies : SeqsUpTo(AggPolicies, MaxPolicies), action : {ActGet, ActPut}]
    /\ ret = None
    /\ Idle

CallAuthorize ==
    /\ pc = "call"
    /\ ret' = _check_action_permitted_for_iam_user(arg.policies, arg.action)
    /\ pc' = "done"
    /\ UNCHANGED <<arg, backend, request, self, outcome, calls>>

SpecAuthorize == InitAuthorize /\ [][CallAuthorize]_vars

-----------------------------------------------------------------------------
(* Policy evaluation: properties *)

ElementPatterns(v) == IF IsList(v) THEN {v.list[i] : i \in 1..Len(v.list)} ELSE {v.str}

Concerns(statement, action) ==
    IF "NotAction" \in DOMAIN statement
    THEN \A p \in ElementPatterns(statement["NotAction"]) : ~_match(p, action)
    ELSE \E p \in ElementPatterns(statement["Action"]) : _match(p, action)

\* C9: a NotAction statement concerns the action when no pattern matches it,
\* an Action statement when some pattern matches it; a concerned statement
\* yields PERMITTED for Allow and DENIED for Deny, any other statement
\* NEUTRAL; Resource and Condition play no part.
C9_StatementRule ==
    pc = "done" =>
        ret = IF Concerns(arg.statement, arg.action)
              THEN (IF arg.statement["Effect"] = "Allow" THEN PERMITTED ELSE DENIED)
              ELSE NEUTRAL

C9_Witness ==
    /\ pc = "done"
    /\ "NotAction" \in DOMAIN arg.statement
    /\ "Resource" \in DOMAIN arg.statement
    /\ IsList(arg.statement["NotAction"])
    /\ Len(arg.statement["NotAction"].list) = 2
    /\ ret = DENIED

DocStatement(i) == arg.policy.json["Statement"][i]
DocIndices == 1..Len(arg.policy.json["Statement"])
SomeConcerned(effect) ==
    \E i \in DocIndices :
        /\ DocStatement(i)["Effect"] = effect
        /\ is_action_concerned(DocStatement(i), arg.action)

\* C2: a document evaluates to DENIED exactly when some Deny statement
\* concerns the action, wherever it stands; to PERMITTED exactly when no Deny
\* statement and some Allow statement concerns it; to NEUTRAL exactly when
\* no statement concerns it.
C2_DocumentRule ==
    pc = "done" =>
        /\ ret = DENIED <=> SomeConcerned("Deny")
        /\ ret = PERMITTED <=> (~SomeConcerned("Deny") /\ SomeConcerned("Allow"))
        /\ ret = NEUTRAL <=> (~SomeConcerned("Deny") /\ ~SomeConcerned("Allow"))

\* an Allow that concerns the action stands before the Deny that concerns it
C2_Witness ==
    /\ pc = "done"
    /\ ret = DENIED
    /\ \E i, j \in DocIndices :
           /\ i < j
           /\ DocStatement(i)["Effect"] = "Allow"
           /\ is_action_concerned(DocStatement(i), arg.action)
           /\ DocStatement(j)["Effect"] = "Deny"
           /\ is_action_concerned(DocStatement(j), arg.action)
           /\ \A k \in DocIndices : DocStatement(k)["Effect"] = "Deny" => k >= j

PolicyResult(i) == IAMPolicy_is_action_permitted(arg.policies[i], arg.action)
PolicyIndices == 1..Len(arg.policies)

\* Over lists of policies that can all be evaluated, the loop returns
\* exactly when some policy evaluates to PERMITTED and none to DENIED, and
\* raises access denied in every other case.
AggregationLoopRule ==
    pc = "done" =>
        /\ ret \in {"return", "raise"}
        /\ ret = "return" <=>
               /\ \E i \in PolicyIndices : PolicyResult(i) = PERMITTED
               /\ \A i \in PolicyIndices : PolicyResult(i) # DENIED

\* default deny: policies are attached and every one of them is NEUTRAL
AggregationLoopWitness ==
    /\ pc = "done"
    /\ ret = "raise"
    /\ Len(arg.policies) = MaxPolicies
    /\ \A i \in PolicyIndices : PolicyResult(i) = NEUTRAL

-----------------------------------------------------------------------------
(* Header names and the Authorization header *)

Authorization == <<"A", "u", "t", "h", "o", "r", "i", "z", "a", "t", "i", "o", "n">>
Host == <<"H", "o", "s", "t">>
HostLower == <<"h", "o", "s", "t">>
HostUpper == <<"H", "O", "S", "T">>
XAmzDate == <<"X", "-", "A", "m", "z", "-", "D", "a", "t", "e">>
XAmzDateLower == <<"x", "-", "a", "m", "z", "-", "d", "a", "t", "e">>
XAmzSecurityToken ==
    <<"X", "-", "A", "m", "z", "-", "S", "e", "c", "u", "r", "i", "t", "y", "-", "T", "o", "k", "e", "n">>

RECURSIVE Join(_, _)
Join(fields, sep) ==
    IF fields = <<>> THEN <<>>
    ELSE IF Len(fields) = 1 THEN fields[1]
    ELSE fields[1] \o <<sep>> \o Join(Tail(fields), sep)

\* The header a client writes: the algorithm, then the components that are
\* present, each closed by ", ".  credential and signed_headers are <<v>>
\* for a component with the fields v and <<>> for a missing component.
AuthorizationHeader(credential, signed_headers, signature) ==
    <<"AWS4-HMAC-SHA256", " ">>
    \o (IF credential = <<>> THEN <<>>
        ELSE <<"Credential=">> \o Join(credential[1], "/") \o <<",", " ">>)
    \o (IF signed_headers = <<>> THEN <<>>
        ELSE <<"SignedHeaders=">> \o Join(signed_headers[1], ";") \o <<",", " ">>)
    \o <<"Signature=">> \o signature

_get_string_between(first_separator, second_separator, string) ==
    Partition(Partition(string, first_separator)[3], second_separator)[1]

\* membership in a Python list
InList(x, list) == \E i \in 1..Len(list) : list[i] = x

\* the header filter comparing the name as written
_create_headers_without_lower(signed_headers, original_headers) ==
    LET keys == {key \in DOMAIN original_headers : InList(key, signed_headers)}
    IN  [key \in keys |-> original_headers[key]]

_create_headers_for_aws_request(signed_headers, original_headers) ==
    LET keys == {key \in DOMAIN original_headers : InList(Lower(key), signed_headers)}
    IN  [key \in keys |-> original_headers[key]]

Raise(type) == [raise |-> type]
Raised(v) == "raise" \in DOMAIN v

\* obj is the IAMRequestBase object: its _method, _path, _data, _headers.
\* The value is the AWSRequest, or the KeyError of headers['X-Amz-Date'].
_create_aws_request(obj) ==
    LET signed_headers ==
            Split(_get_string_between(<<"SignedHeaders=">>, <<",">>, obj._headers[Authorization]), ";")
        headers == _create_headers_for_aws_request(signed_headers, obj._headers)
    IN  IF XAmzDate \notin DOMAIN headers THEN Raise("KeyError")
        ELSE [method |-> obj._method, url |-> obj._path, data |-> obj._data,
              headers |-> headers, context |-> [timestamp |-> headers[XAmzDate]]]

-----------------------------------------------------------------------------
(* Inputs of the signed-headers specification *)

MaxSignedHeaders == 2

ViewHeaderNames == {Host, HostLower, HostUpper, XAmzDate, XAmzDateLower}
SignedHeaderEntries == {HostLower, Host, XAmzDateLower, XAmzDate, Lower(Authorization)}

HeaderValue(name) == <<"value of ", ToString(name)>>

\* a dict of headers with the given names besides Authorization
HeadersDict(names, authorization) ==
    [key \in names \cup {Authorization} |->
        IF key = Authorization THEN authorization ELSE HeaderValue(key)]

SomeCredential == <<<<"A", "K", "I", "A", "1">>, <<"20190101">>, <<"us-east-1">>, <<"s", "3">>, <<"aws4_request">>>>

InitHeaders ==
    /\ pc = "call"
    /\ \E names \in SUBSET ViewHeaderNames, signed \in SeqsUpTo(SignedHeaderEntries, MaxSignedHeaders),
          body \in {"Action=ListBuckets", "Action=DeleteBucket"} :
           arg = [_method |-> "POST", _path |-> "/", _data |-> body,
                  signed_headers |-> signed,
                  _headers |-> HeadersDict(names, AuthorizationHeader(<<SomeCredential>>, <<signed>>,
                                                                      <<"sig">>))]
    /\ ret = None
    /\ Idle

CallCreateAwsRequest ==
    /\ pc = "call"
    /\ ret' = _create_aws_request(arg)
    /\ pc' = "done"
    /\ UNCHANGED <<arg, backend, request, self, outcome, calls>>

SpecHeaders == InitHeaders /\ [][CallCreateAwsRequest]_vars

ViewUnchanged ==
    /\ ret.method = arg._method
    /\ ret.url = arg._path
    /\ ret.data = arg._data
    /\ \A key \in DOMAIN ret.headers :
           key \in DOMAIN arg._headers /\ ret.headers[key] = arg._headers[key]

\* C10 as stated: the view holds a header of the request exactly when its
\* name equals some SignedHeaders entry with letter case ignored on both
\* sides; values, method, path and body are unchanged.
C10_BothSidesIgnoreCase ==
    (pc = "done" /\ ~Raised(ret)) =>
        /\ ViewUnchanged
        /\ \A key \in DOMAIN arg._headers :
               key \in DOMAIN ret.headers <=>
                   \E i \in 1..Len(arg.signed_headers) : Lower(arg.signed_headers[i]) = Lower(key)

\* C10 as amended: the view holds a header of the request exactly when its
\* lower-cased name equals some SignedHeaders entry as written; values,
\* method, path and body are unchanged; no view is built (KeyError) exactly
\* when the selected headers lack the key X-Amz-Date.
C10_LowerCasedNameInList ==
    pc = "done" =>
        LET selected == {key \in DOMAIN arg._headers :
                            \E i \in 1..Len(arg.signed_headers) : arg.signed_headers[i] = Lower(key)}
        IN  IF XAmzDate \in selected
            THEN /\ ~Raised(ret)
                 /\ ViewUnchanged
                 /\ DOMAIN ret.headers = selected
            ELSE ret = Raise("KeyError")

\* a header written in upper case is kept for a lower-case entry
C10_Witness ==
    /\ pc = "done"
    /\ ~Raised(ret)
    /\ HostUpper \in DOMAIN ret.headers
    /\ arg.signed_headers = <<XAmzDateLower, HostLower>>
    /\ XAmzDateLower \in DOMAIN arg._headers

-----------------------------------------------------------------------------
(* Principal resolution.  users: iam_backend.list_users('/', None, None);   *)
(* assumed_roles: sts_backend.assumed_roles.  The value is the access key   *)
(* object, or the CreateAccessKeyFailure raised by its constructor.         *)

AKIA == <<"A", "K", "I", "A">>

CreateAccessKeyFailure(reason) == [raise |-> "CreateAccessKeyFailure", reason |-> reason]

\* the nested loops of IAMUserAccessKey.__init__, from user i, key j on
RECURSIVE UserScan(_, _, _, _, _)
UserScan(iam_users, i, j, access_key_id, headers) ==
    IF i > Len(iam_users) THEN CreateAccessKeyFailure("InvalidId")
    ELSE IF j > Len(iam_users[i].access_keys)
         THEN UserScan(iam_users, i + 1, 1, access_key_id, headers)
    ELSE LET access_key == iam_users[i].access_keys[j]
         IN  IF access_key.access_key_id = access_key_id
             THEN (IF XAmzSecurityToken \in DOMAIN headers
                   THEN CreateAccessKeyFailure("InvalidToken")
                   ELSE [class |-> "IAMUserAccessKey",
                         _owner_user_name |-> iam_users[i].name,
                         _access_key_id |-> access_key_id,
                         _secret_access_key |-> access_key.secret_access_key])
             ELSE UserScan(iam_users, i, j + 1, access_key_id, headers)

IAMUserAccessKey(dir, access_key_id, headers) ==
    UserScan(dir.users, 1, 1, access_key_id, headers)

\* the session loop that takes the access key id for proof enough
RECURSIVE SessionScanNoToken(_, _, _, _)
SessionScanNoToken(assumed_roles, i, access_key_id, headers) ==
    IF i > Len(assumed_roles) THEN CreateAccessKeyFailure("InvalidId")
    ELSE LET assumed_role == assumed_roles[i]
         IN  IF assumed_role.access_key_id = access_key_id
             THEN LET arn_fields == Split(assumed_role.arn, "/")
                  IN  [class |-> "AssumedRoleAccessKey",
                       _access_key_id |-> access_key_id,
                       _secret_access_key |-> assumed_role.secret_access_key,
                       _session_token |-> assumed_role.session_token,
                       _owner_role_name |-> arn_fields[Len(arn_fields)],
                       _session_name |-> assumed_role.session_name]
             ELSE SessionScanNoToken(assumed_roles, i + 1, access_key_id, headers)

\* the loop of AssumedRoleAccessKey.__init__, from session i on
RECURSIVE SessionScan(_, _, _, _)
SessionScan(assumed_roles, i, access_key_id, headers) ==
    IF i > Len(assumed_roles) THEN CreateAccessKeyFailure("InvalidId")
    ELSE LET assumed_role == assumed_roles[i]
         IN  IF assumed_role.access_key_id = access_key_id
             THEN (IF headers[XAmzSecurityToken] # assumed_role.session_token
                   THEN CreateAccessKeyFailure("InvalidToken")
                   ELSE LET arn_fields == Split(assumed_role.arn, "/")
                        IN  [class |-> "AssumedRoleAccessKey",
                             _access_key_id |-> access_key_id,
                             _secret_access_key |-> assumed_role.secret_access_key,
                             _session_token |-> assumed_role.session_token,
                             _owner_role_name |-> arn_fields[Len(arn_fields)],
                             _session_name |-> assumed_role.session_name])
             ELSE SessionScan(assumed_roles, i + 1, access_key_id, headers)

AssumedRoleAccessKey(dir, access_key_id, headers) ==
    SessionScan(dir.assumed_roles, 1, access_key_id, headers)

\* the classification by the security token alone, the prefix ignored
create_access_key_by_token_only(dir, access_key_id, headers) ==
    IF XAmzSecurityToken \notin DOMAIN headers
    THEN IAMUserAccessKey(dir, access_key_id, headers)
    ELSE AssumedRoleAccessKey(dir, access_key_id, headers)

create_access_key(dir, access_key_id, headers) ==
    IF StartsWith(access_key_id, AKIA) \/ XAmzSecurityToken \notin DOMAIN headers
    THEN IAMUserAccessKey(dir, access_key_id, headers)
    ELSE AssumedRoleAccessKey(dir, access_key_id, headers)

ACCOUNT_ID == "123456789012"

arn(access_key) ==
    IF access_key.class = "IAMUserAccessKey"
    THEN <<"arn:aws:iam::", ACCOUNT_ID, ":user/">> \o access_key._owner_user_name
    ELSE <<"arn:aws:sts::", ACCOUNT_ID, ":assumed-role/">> \o access_key._owner_role_name
             \o <<"/">> \o access_key._session_name

\* botocore Credentials(access_key, secret_key, token=None); no token: <<>>
create_credentials(access_key) ==
    IF access_key.class = "IAMUserAccessKey"
    THEN [access_key |-> access_key._access_key_id,
          secret_key |-> access_key._secret_access_key, token |-> <<>>]
    ELSE [access_key |-> access_key._access_key_id,
          secret_key |-> access_key._secret_access_key,
          token |-> <<access_key._session_token>>]

-----------------------------------------------------------------------------
(* The directory behind iam_backend and sts_backend, as collect_policies    *)
(* reads it: a user has access_keys, inline policies (dicts with a          *)
(* policy_document), attached managed policies and groups; a group and a    *)
(* role have inline and attached policies; a role's inline policy is handed *)
(* over as the document itself.  The backend is not part of this file; its  *)
(* lookups are the ones of the Identity Directory: each gives the list of   *)
(* policies of the user, group or role it is asked about.                   *)

ByName(entries, name) == CHOOSE e \in {entries[i] : i \in 1..Len(entries)} : e.name = name

RECURSIVE Concat(_)
Concat(lists) == IF lists = <<>> THEN <<>> ELSE Head(lists) \o Concat(Tail(lists))

\* the group objects of the user
get_groups_for_user(dir, user_name) ==
    LET user == ByName(dir.users, user_name)
    IN  [i \in 1..Len(user.groups) |-> ByName(dir.groups, user.groups[i])]

\* the managed policies attached to the group
list_attached_group_policies(dir, group_name) == ByName(dir.groups, group_name).managed_policies

\* one pass of the loop over user_groups: the inline policies of the group
\* object, then what list_attached_group_policies gives for its name
GroupPolicies(dir, user_group) ==
    user_group.policies \o list_attached_group_policies(dir, user_group.name)

collect_policies(dir, access_key) ==
    IF access_key.class = "IAMUserAccessKey"
    THEN LET user == ByName(dir.users, access_key._owner_user_name)
             user_groups == get_groups_for_user(dir, access_key._owner_user_name)
         IN  user.policies \o user.managed_policies
             \o Concat([i \in 1..Len(user_groups) |-> GroupPolicies(dir, user_groups[i])])
    ELSE LET role == ByName(dir.roles, access_key._owner_role_name)
         IN  role.policies \o role.managed_policies

-----------------------------------------------------------------------------
(* Signature.  The signer (botocore SigV4Auth / S3SigV4Auth) is taken to    *)
(* give different signatures for different credentials, scopes or requests. *)

_create_auth(cls, credentials, service, region) ==
    [class |-> IF cls = "S3IAMRequest" THEN "S3SigV4Auth" ELSE "SigV4Auth",
     credentials |-> credentials, service |-> service, region |-> region]

signature(auth, aws_request) == <<ToString(<<auth, aws_request>>)>>

\* obj: the request object.  The signature, or the KeyError of the view.
_calculate_signature(obj) ==
    LET credentials == create_credentials(obj._access_key)
        auth == _create_auth(obj.class, credentials, obj._service, obj._region)
        aws_request == _create_aws_request(obj)
    IN  IF Raised(aws_request) THEN aws_request ELSE signature(auth, aws_request)

\* the exception raised by check_signature, or None when it returns
check_signature_skipped(obj) == None

check_signature(obj) ==
    LET original_signature ==
            _get_string_between(<<"Signature=">>, <<",">>, obj._headers[Authorization])
        calculated_signature == _calculate_signature(obj)
    IN  IF Raised(_create_aws_request(obj)) THEN [type |-> _create_aws_request(obj).raise]
        ELSE IF original_signature # calculated_signature
             THEN [type |-> "SignatureDoesNotMatchError"]
             ELSE None

-----------------------------------------------------------------------------
(* The two request classes *)

Ec2 == <<"e", "c", "2">>
S3 == <<"s", "3">>

\* the generic class telling the two reasons apart
_raise_invalid_access_key_keeps_reason(cls, service, data, reason) ==
    IF reason = "InvalidToken" THEN [type |-> "InvalidTokenError"]
    ELSE [type |-> "InvalidClientTokenIdError"]

\* the exception raised for a CreateAccessKeyFailure with this reason
_raise_invalid_access_key(cls, service, data, reason) ==
    IF cls = "IAMRequest"
    THEN (IF service = Ec2 THEN [type |-> "AuthFailureError"]
          ELSE [type |-> "InvalidClientTokenIdError"])
    ELSE IF reason = "InvalidToken"
         THEN (IF "BucketName" \in DOMAIN data
               THEN [type |-> "BucketInvalidTokenError", bucket |-> data["BucketName"]]
               ELSE [type |-> "S3InvalidTokenError"])
         ELSE (IF "BucketName" \in DOMAIN data
               THEN [type |-> "BucketInvalidAccessKeyIdError", bucket |-> data["BucketName"]]
               ELSE [type |-> "S3InvalidAccessKeyIdError"])

_raise_access_denied(obj) ==
    IF obj.class = "IAMRequest"
    THEN [type |-> "AccessDeniedError", user_arn |-> arn(obj._access_key), action |-> obj._action]
    ELSE IF "BucketName" \in DOMAIN obj._data
         THEN [type |-> "BucketAccessDeniedError", bucket |-> obj._data["BucketName"]]
         ELSE [type |-> "S3AccessDeniedError"]

\* the exception raised by check_action_permitted, or None when it returns
check_action_permitted(dir, obj) ==
    LET result == _check_action_permitted_for_iam_user(
                      collect_policies(dir, obj._access_key), obj._action)
    IN  IF result = "raise" THEN _raise_access_denied(obj)
        ELSE IF result = "TypeError" THEN [type |-> "TypeError"]
        ELSE None

\* The calls the server makes for one request, in order: the constructor,
\* check_signature, check_action_permitted; an exception ends the request.
next_call(returned) ==
    CASE returned = "__init__" -> "check_signature"
      [] returned = "check_signature" -> "check_action_permitted"
      [] returned = "check_action_permitted" -> "done"

-----------------------------------------------------------------------------
(* Inputs of the request specification *)

AKIA1 == <<"A", "K", "I", "A", "1">>
AKIA2 == <<"A", "K", "I", "A", "2">>
ASIA1 == <<"A", "S", "I", "A", "1">>
ASIA2 == <<"A", "S", "I", "A", "2">>
Token1 == <<"session-token-1">>
Token2 == <<"session-token-2">>
Get == <<"G", "e", "t">>
Put == <<"P", "u", "t">>
RoleArn == <<"arn:aws:iam::", ACCOUNT_ID, ":role", "/", "dev-role">>

Managed(name, d) ==
    [name |-> name,
     versions |-> <<[document |-> Document(<<Allow(Star)>>), is_default |-> FALSE],
                    [document |-> d, is_default |-> TRUE]>>]
Inline(name, d) == [policy_name |-> name, policy_document |-> d]

\* alice may do s3:* but her group denies s3:Put; the role may do
\* everything but ec2:Put
Directory1 ==
    [users |-> <<[name |-> <<"bob">>, access_keys |-> <<>>, policies |-> <<>>,
                  managed_policies |-> <<>>, groups |-> <<>>],
                 [name |-> <<"alice">>,
                  access_keys |-> <<[access_key_id |-> AKIA2, secret_access_key |-> "secret-old"],
                                    [access_key_id |-> AKIA1, secret_access_key |-> "secret-alice"]>>,
                  policies |-> <<Inline("s3", Document(<<Allow(S3 \o <<":", "*">>)>>))>>,
                  managed_policies |-> <<>>,
                  groups |-> <<<<"devs">>>>]>>,
     groups |-> <<[name |-> <<"devs">>,
                   policies |-> <<Inline("quiet", Document(<<>>))>>,
                   managed_policies |-> <<Managed("no-put", Document(<<Deny(S3 \o <<":">> \o Put)>>))>>]>>,
     roles |-> <<[name |-> <<"dev-role">>,
                  policies |-> <<Document(<<Allow(Star)>>)>>,
                  managed_policies |-> <<Managed("no-ec2-put", Document(<<Deny(Ec2 \o <<":">> \o Put)>>))>>]>>,
     assumed_roles |-> <<[access_key_id |-> ASIA2, secret_access_key |-> "secret-other",
                          session_token |-> Token2, arn |-> RoleArn,
                          session_name |-> <<"other">>],
                         [access_key_id |-> ASIA1, secret_access_key |-> "secret-session",
                          session_token |-> Token1, arn |-> RoleArn,
                          session_name |-> <<"session">>]>>]

\* alice has one key and no policy at all; nobody has assumed a role
Directory2 ==
    [users |-> <<[name |-> <<"alice">>,
                  access_keys |-> <<[access_key_id |-> AKIA1, secret_access_key |-> "secret-alice"]>>,
                  policies |-> <<>>, managed_policies |-> <<>>, groups |-> <<>>]>>,
     groups |-> <<>>,
     roles |-> <<>>,
     assumed_roles |-> <<>>]

Directories == {Directory1, Directory2}

Region == <<"us-east-1">>
CredentialFields(key, service) == <<key, <<"20190101">>, Region, service, <<"aws4_request">>>>

\* the credential scope as written: missing, or cut after n fields
CredentialShapes(key, service) ==
    {<<>>} \cup {<<SubSeq(CredentialFields(key, service), 1, n)>> : n \in {1, 3, 4, 5}}

SignedHeaderShapes == {<<>>, <<<<HostLower, XAmzDateLower>>>>, <<<<HostLower>>>>}

BaseHeaders(token) ==
    [key \in {Host, XAmzDate} \cup (IF token = <<>> THEN {} ELSE {XAmzSecurityToken}) |->
        IF key = XAmzSecurityToken THEN token[1] ELSE HeaderValue(key)]

Data(action_name, bucket) ==
    IF bucket THEN [Action |-> <<action_name>>, BucketName |-> "bucket"]
    ELSE [Action |-> <<action_name>>]

\* what the client signed: its secret, over the data it meant to send and
\* the headers it declared signed
ClientSignature(cls, key, secret, token, service, data, signed_headers) ==
    signature(_create_auth(cls, [access_key |-> key, secret_key |-> secret, token |-> token],
                           service, Region),
              [method |-> "POST", url |-> "/", data |-> data,
               headers |-> _create_headers_for_aws_request(
                               IF signed_headers = <<>> THEN <<>> ELSE signed_headers[1],
                               BaseHeaders(token)),
               context |-> [timestamp |-> HeaderValue(XAmzDate)]])

Init ==
    /\ pc = "__init__"
    /\ backend \in Directories
    /\ \E cls \in {"IAMRequest", "S3IAMRequest"}, key \in {AKIA1, AKIA2, ASIA1, ASIA2},
          token \in {<<>>, <<Token1>>, <<Token2>>}, service \in {S3, Ec2},
          action_name \in {Get, Put}, signed_action \in {Get, Put}, bucket \in BOOLEAN,
          secret \in {"secret-alice", "secret-session", "secret-wrong"},
          signed_headers \in SignedHeaderShapes :
        \E credential \in CredentialShapes(key, service) :
            request = [class |-> cls, method |-> "POST", path |-> "/",
                       data |-> Data(action_name, bucket),
                       headers |->
                           [key2 \in DOMAIN BaseHeaders(token) \cup {Authorization} |->
                               IF key2 = Authorization
                               THEN AuthorizationHeader(credential, signed_headers,
                                        ClientSignature(cls, key, secret, token, service,
                                                        Data(signed_action, bucket), signed_headers))
                               ELSE BaseHeaders(token)[key2]]]
    /\ arg = None
    /\ ret = None
    /\ self = None
    /\ outcome = None
    /\ calls = <<>>

-----------------------------------------------------------------------------
(* The request: IAMRequestBase.__init__, check_signature, check_action_permitted *)

Construct ==
    /\ pc = "__init__"
    /\ LET credential_scope ==
               _get_string_between(<<"Credential=">>, <<",">>, request.headers[Authorization])
           credential_data == Split(credential_scope, "/")
       IN  IF Len(credential_data) < 4
           THEN \* credential_data[2] or credential_data[3]
                /\ outcome' = [type |-> "IndexError"]
                /\ pc' = "done"
                /\ UNCHANGED <<arg, ret, self, calls>>
           ELSE LET _region == credential_data[3]
                    _service == credential_data[4]
                    _action == _service \o <<":">> \o request.data["Action"][1]
                    access_key == create_access_key(backend, credential_data[1], request.headers)
                IN  /\ arg' = [access_key_id |-> credential_data[1], headers |-> request.headers]
                    /\ ret' = access_key
                    /\ calls' = Append(calls, "create_access_key")
                    /\ IF Raised(access_key)
                       THEN /\ outcome' = _raise_invalid_access_key(request.class, _service,
                                                                    request.data, access_key.reason)
                            /\ pc' = "done"
                            /\ self' = self
                       ELSE /\ self' = [class |-> request.class, _method |-> request.method,
                                        _path |-> request.path, _data |-> request.data,
                                        _headers |-> request.headers, _region |-> _region,
                                        _service |-> _service, _action |-> _action,
                                        _access_key |-> access_key]
                            /\ pc' = next_call("__init__")
                            /\ outcome' = outcome
    /\ UNCHANGED <<backend, request>>

CheckSignature ==
    /\ pc = "check_signature"
    /\ calls' = Append(calls, "check_signature")
    /\ LET raised == check_signature(self)
       IN  IF raised = None
           THEN pc' = next_call("check_signature") /\ outcome' = outcome
           ELSE pc' = "done" /\ outcome' = raised
    /\ UNCHANGED <<arg, ret, backend, request, self>>

CheckActionPermitted ==
    /\ pc = "check_action_permitted"
    /\ calls' = Append(calls, "collect_policies")
    /\ LET raised == check_action_permitted(backend, self)
       IN  outcome' = IF raised = None THEN [type |-> "Success"] ELSE raised
    /\ pc' = next_call("check_action_permitted")
    /\ UNCHANGED <<arg, ret, backend, request, self>>

Next == Construct \/ CheckSignature \/ CheckActionPermitted

Spec == Init /\ [][Next]_vars

-----------------------------------------------------------------------------
(* The request: properties *)

Resolved == calls # <<>>
HasToken == XAmzSecurityToken \in DOMAIN arg.headers
OnUserPath == StartsWith(arg.access_key_id, AKIA) \/ ~HasToken

Owners ==
    {i \in 1..Len(backend.users) :
        \E j \in 1..Len(backend.users[i].access_keys) :
            backend.users[i].access_keys[j].access_key_id = arg.access_key_id}

\* C4: a key id with the prefix AKIA, or any key id without a security
\* token header, is resolved among the users: to the owning user when the
\* key is found and no token is sent, InvalidToken when it is found and a
\* token is sent, InvalidId when no user owns it.
C4_UserPath ==
    (Resolved /\ OnUserPath) =>
        /\ (Owners # {} /\ ~HasToken) =>
               /\ ~Raised(ret)
               /\ ret.class = "IAMUserAccessKey"
               /\ \E i \in Owners : ret._owner_user_name = backend.users[i].name
        /\ (Owners # {} /\ HasToken) => ret = CreateAccessKeyFailure("InvalidToken")
        /\ Owners = {} => ret = CreateAccessKeyFailure("InvalidId")

\* a long-term key sent together with a session token
C4_Witness ==
    /\ Resolved
    /\ StartsWith(arg.access_key_id, AKIA)
    /\ HasToken
    /\ Owners # {}
    /\ ret = CreateAccessKeyFailure("InvalidToken")

Sessions ==
    {i \in 1..Len(backend.assumed_roles) :
        backend.assumed_roles[i].access_key_id = arg.access_key_id}
FirstSession == CHOOSE i \in Sessions : \A j \in Sessions : i <= j

\* C5: on the assumed-role path a principal is produced only for a session
\* with that access key id whose token the request presents; a session with
\* that key id and another token gives InvalidToken, no such session
\* InvalidId; no request succeeds as an assumed role without the token.
C5_AssumedRolePath ==
    /\ (Resolved /\ ~OnUserPath) =>
           /\ Sessions = {} => ret = CreateAccessKeyFailure("InvalidId")
           /\ (Sessions # {}
                 /\ arg.headers[XAmzSecurityToken] # backend.assumed_roles[FirstSession].session_token)
                  => ret = CreateAccessKeyFailure("InvalidToken")
           /\ ~Raised(ret) =>
                  /\ ret.class = "AssumedRoleAccessKey"
                  /\ \E i \in Sessions :
                         /\ arg.headers[XAmzSecurityToken] = backend.assumed_roles[i].session_token
                         /\ ret._session_token = backend.assumed_roles[i].session_token
                         /\ ret._secret_access_key = backend.assumed_roles[i].secret_access_key
    /\ (self # None /\ self._access_key.class = "AssumedRoleAccessKey") =>
           /\ XAmzSecurityToken \in DOMAIN request.headers
           /\ \E i \in 1..Len(backend.assumed_roles) :
                  /\ backend.assumed_roles[i].access_key_id = self._access_key._access_key_id
                  /\ backend.assumed_roles[i].session_token = request.headers[XAmzSecurityToken]

\* the key of a live session sent with the token of another session
C5_Witness ==
    /\ Resolved
    /\ ~OnUserPath
    /\ Sessions # {}
    /\ \E i \in 1..Len(backend.assumed_roles) :
           backend.assumed_roles[i].session_token = arg.headers[XAmzSecurityToken]
    /\ ret = CreateAccessKeyFailure("InvalidToken")

ScopeService ==
    Split(_get_string_between(<<"Credential=">>, <<",">>, request.headers[Authorization]), "/")[4]

\* C7: a resolution failure is reported by IAMRequest as AuthFailure for
\* the service ec2 and as InvalidClientTokenId for any other service, and by
\* S3IAMRequest as an invalid-token or invalid-access-key-id error after the
\* reason, in the variant naming the bucket exactly when the data has a
\* BucketName; no request object is produced and no later stage runs.
C7_FailureKinds ==
    (Resolved /\ Raised(ret)) =>
        /\ pc = "done"
        /\ self = None
        /\ calls = <<"create_access_key">>
        /\ request.class = "IAMRequest" =>
               outcome = [type |-> IF ScopeService = Ec2 THEN "AuthFailureError"
                                   ELSE "InvalidClientTokenIdError"]
        /\ (request.class = "S3IAMRequest" /\ "BucketName" \in DOMAIN request.data) =>
               outcome = [type |-> IF ret.reason = "InvalidToken" THEN "BucketInvalidTokenError"
                                   ELSE "BucketInvalidAccessKeyIdError",
                          bucket |-> request.data["BucketName"]]
        /\ (request.class = "S3IAMRequest" /\ "BucketName" \notin DOMAIN request.data) =>
               outcome = [type |-> IF ret.reason = "InvalidToken" THEN "S3InvalidTokenError"
                                   ELSE "S3InvalidAccessKeyIdError"]

\* the generic class reporting a misused token for a service other than ec2
C7_Witness ==
    /\ Resolved
    /\ ret = CreateAccessKeyFailure("InvalidToken")
    /\ request.class = "IAMRequest"
    /\ ScopeService = S3
    /\ "BucketName" \in DOMAIN request.data
    /\ outcome = [type |-> "InvalidClientTokenIdError"]

Stages == <<"create_access_key", "check_signature", "collect_policies">>

SuppliedSignature ==
    _get_string_between(<<"Signature=">>, <<",">>, request.headers[Authorization])
SignatureDiffers ==
    /\ ~Raised(_create_aws_request(self))
    /\ SuppliedSignature # _calculate_signature(self)
PoliciesPermit ==
    _check_action_permitted_for_iam_user(collect_policies(backend, self._access_key),
                                         self._action) = "return"

\* the policy documents attached to the principal in the directory: its
\* own inline and managed policies and, for a user, those of its groups
AttachedPolicies(dir, access_key) ==
    IF access_key.class = "IAMUserAccessKey"
    THEN LET user == ByName(dir.users, access_key._owner_user_name)
         IN  user.policies \o user.managed_policies
             \o Concat([i \in 1..Len(user.groups) |->
                           ByName(dir.groups, user.groups[i]).policies
                           \o ByName(dir.groups, user.groups[i]).managed_policies])
    ELSE LET role == ByName(dir.roles, access_key._owner_role_name)
         IN  role.policies \o role.managed_policies

\* With a directory whose lookups give lists of policies, a request that
\* passes the first two stages is permitted exactly when some attached
\* policy document evaluates to PERMITTED and none to DENIED, and ends in
\* access denied in every other case.
AuthorizeRule ==
    (pc = "done" /\ calls = Stages) =>
        LET attached == AttachedPolicies(backend, self._access_key)
            result(i) == IAMPolicy_is_action_permitted(attached[i], self._action)
            permitted == /\ \E i \in 1..Len(attached) : result(i) = PERMITTED
                         /\ \A i \in 1..Len(attached) : result(i) # DENIED
        IN  outcome = IF permitted THEN [type |-> "Success"] ELSE _raise_access_denied(self)

\* C3: the stages run in the order resolve, verify, evaluate; a failed
\* resolution ends the request before the signature is computed; a signature
\* that differs gives SignatureDoesNotMatch and the policies are never
\* collected; Success comes only after all three stages have succeeded.
C3_PipelineOrder ==
    /\ \E n \in 0..Len(Stages) : calls = SubSeq(Stages, 1, n)
    /\ Raised(ret) => (pc = "done" /\ calls = <<"create_access_key">>)
    /\ (self # None /\ pc \in {"check_action_permitted", "done"} /\ SignatureDiffers) =>
           /\ pc = "done"
           /\ outcome = [type |-> "SignatureDoesNotMatchError"]
           /\ calls = SubSeq(Stages, 1, 2)
    /\ (pc = "done" /\ outcome = [type |-> "Success"]) =>
           /\ calls = Stages
           /\ self # None
           /\ ~Raised(ret)
           /\ ~Raised(_create_aws_request(self))
           /\ ~SignatureDiffers
           /\ PoliciesPermit

\* a request signed over another body by a principal whose policies permit
\* the action that arrives
C3_Witness ==
    /\ pc = "done"
    /\ self # None
    /\ SignatureDiffers
    /\ PoliciesPermit
    /\ outcome = [type |-> "SignatureDoesNotMatchError"]

Malformed ==
    LET header == request.headers[Authorization]
    IN  \/ Find(header, <<"Credential=">>) = 0
        \/ Len(Split(_get_string_between(<<"Credential=">>, <<",">>, header), "/")) < 4
        \/ Find(header, <<"SignedHeaders=">>) = 0

\* The code has no error class for a malformed header: the unhandled
\* IndexError and KeyError of the parse are the failures that can stand for it.
MalformedAuthorizationHeader == {"IndexError", "KeyError"}

\* C8: a request whose credential scope or SignedHeaders list cannot be
\* parsed ends in the malformed-header failure, never in Success and never
\* in another outcome reached by going on with empty or partial values.
C8_MalformedHeaderFails ==
    (pc = "done" /\ Malformed) => outcome.type \in MalformedAuthorizationHeader

====
